---- MODULE Spec2Model ----
(***************************************************************************)
(* Model of the StoreService handlers of                                   *)
(* game_bloc-grpc-server/src/services/db.rs (create_user, get_user,        *)
(* create_product, get_product) over two MongoDB collections.  The file    *)
(* keeps these handlers as commented-out code; the model is of that code.  *)
(*                                                                         *)
(* Strings that the code inspects character by character (identifiers)     *)
(* are sequences of one-character strings; an ObjectId is its sequence of  *)
(* 12 bytes.  Names, emails and descriptions are only copied, so they are  *)
(* plain strings.                                                          *)
(***************************************************************************)
EXTENDS Integers, Sequences, FiniteSets, TLC

\* ------------------------------------------------------------------ bounds
\* Number of ObjectId::new() calls (hence of create requests) explored.
MaxDocs == 2
\* Number of concurrent callers of the interleaved specification.
MaxCallers == 2

\* ------------------------------------------------------- program constants
\* An ObjectId is 12 bytes; its hex form has 24 characters.
OidBytes == 12
\* First value of the process-wide ObjectId counter (random in the library;
\* 10 makes the hex forms contain a letter).
OidStart == 10

\* ------------------------------------------------------------------ inputs
\* Requests with a valid, an empty-name and an empty-email payload.
CreateUserRequests ==
  {[name |-> "Ann", email |-> "a@b.com"],
   [name |-> "", email |-> "a@b.com"],
   [name |-> "Ann", email |-> ""]}
\* Requests with a valid, an empty-name and a negative-price payload.
CreateProductRequests ==
  {[name |-> "Widget", description |-> "desc", price |-> 3],
   [name |-> "", description |-> "desc", price |-> 0],
   [name |-> "Widget", description |-> "desc", price |-> -1]}

\* --------------------------------------------------- ObjectId and its hex
HexDigits == <<"0","1","2","3","4","5","6","7","8","9","a","b","c","d","e","f">>
UpperHexDigits == <<"0","1","2","3","4","5","6","7","8","9","A","B","C","D","E","F">>

\* The characters hex decoding accepts, with their values.
HexChars == {HexDigits[v] : v \in 1..16} \cup {UpperHexDigits[v] : v \in 1..16}
HexValue ==
  [c \in HexChars |-> (CHOOSE v \in 1..16 : HexDigits[v] = c \/ UpperHexDigits[v] = c) - 1]
IsHexChar(c) == c \in HexChars
HexVal(c) == HexValue[c]

\* ObjectId::to_hex: two lower-case hex digits per byte.
to_hex(oid) ==
  [i \in 1..(2 * Len(oid)) |->
     LET b == oid[(i + 1) \div 2]
     IN  IF i % 2 = 1 THEN HexDigits[(b \div 16) + 1] ELSE HexDigits[(b % 16) + 1]]

\* parse_str decoding each byte with its two digits exchanged.
parse_str_swapped(s) ==
  IF Len(s) = 2 * OidBytes /\ \A i \in 1..Len(s) : IsHexChar(s[i])
  THEN [ok |-> TRUE,
        oid |-> [j \in 1..OidBytes |-> HexVal(s[2 * j]) * 16 + HexVal(s[2 * j - 1])]]
  ELSE [ok |-> FALSE, oid |-> <<>>]

\* ObjectId::parse_str: exactly 24 hex digits of either case, else an error.
parse_str(s) ==
  IF Len(s) = 2 * OidBytes /\ \A i \in 1..Len(s) : IsHexChar(s[i])
  THEN [ok |-> TRUE,
        oid |-> [j \in 1..OidBytes |-> HexVal(s[2 * j - 1]) * 16 + HexVal(s[2 * j])]]
  ELSE [ok |-> FALSE, oid |-> <<>>]

\* Timestamp (4 bytes) and process-unique value (5 bytes) of this process.
OidPrefix == <<101, 70, 0, 1, 171, 205, 239, 1, 35>>

\* ObjectId::new() ignoring the counter.
ObjectId_new_fixed(c) ==
  OidPrefix \o <<0, 0, OidStart>>

\* ObjectId::new() when the process-wide counter holds c: the prefix followed
\* by the 3-byte big-endian counter.
ObjectId_new(c) ==
  OidPrefix \o <<(c \div 65536) % 256, (c \div 256) % 256, c % 256>>

\* `req.price as f64`: the response of get_product carries product.price (an
\* f64) in the same field as req.price, so req.price is an f64 and the cast
\* keeps the value.
as_f64(p) == p

\* ------------------------------------------------------------ the store
\* insert_one overwriting the collection with the new document.
insert_one_replace(coll, doc, ok) ==
  IF ~ok \/ \E i \in 1..Len(coll) : coll[i]._id = doc._id
  THEN [ok |-> FALSE, coll |-> coll]
  ELSE [ok |-> TRUE, coll |-> <<doc>>]

\* insert_one losing a write when the collection already holds a document.
insert_one_lossy(coll, doc, ok) ==
  IF ~ok \/ \E i \in 1..Len(coll) : coll[i]._id = doc._id
  THEN [ok |-> FALSE, coll |-> coll]
  ELSE [ok |-> TRUE, coll |-> IF Len(coll) = 0 THEN <<doc>> ELSE coll]

\* Collection::insert_one: fails when the store is unreachable or rejects the
\* write (a document with the same _id exists: the _id index is unique).
insert_one(coll, doc, ok) ==
  IF ~ok \/ \E i \in 1..Len(coll) : coll[i]._id = doc._id
  THEN [ok |-> FALSE, coll |-> coll]
  ELSE [ok |-> TRUE, coll |-> Append(coll, doc)]

\* find_one answering with the first document when none matches.
find_one_any(coll, oid, ok) ==
  IF ~ok THEN [ok |-> FALSE, found |-> FALSE, doc |-> <<>>]
  ELSE IF \E i \in 1..Len(coll) : coll[i]._id = oid
  THEN [ok |-> TRUE, found |-> TRUE,
        doc |-> coll[CHOOSE i \in 1..Len(coll) : coll[i]._id = oid]]
  ELSE IF Len(coll) > 0 THEN [ok |-> TRUE, found |-> TRUE, doc |-> coll[1]]
  ELSE [ok |-> TRUE, found |-> FALSE, doc |-> <<>>]

\* Collection::find_one(doc!{"_id": oid}): Err, Ok(None) or Ok(Some(doc)).
find_one(coll, oid, ok) ==
  IF ~ok THEN [ok |-> FALSE, found |-> FALSE, doc |-> <<>>]
  ELSE IF \E i \in 1..Len(coll) : coll[i]._id = oid
  THEN [ok |-> TRUE, found |-> TRUE,
        doc |-> coll[CHOOSE i \in 1..Len(coll) : coll[i]._id = oid]]
  ELSE [ok |-> TRUE, found |-> FALSE, doc |-> <<>>]

\* ------------------------------------------------------------ responses
Status(code, msg) == [status |-> code, body |-> [message |-> msg]]
UserResponse(id, name, email) ==
  [status |-> "Ok", body |-> [id |-> id, name |-> name, email |-> email]]
ProductResponse(id, name, description, price) ==
  [status |-> "Ok",
   body |-> [id |-> id, name |-> name, description |-> description, price |-> price]]

\* ------------------------------------------------------------- handlers
\* Each handler maps the store content, the ObjectId counter, the store's
\* availability and the request to the new content, the response and the
\* number of store calls it made.
\* create_user rejecting an empty name or email before the store call.
create_user_validating(coll, c, ok, req) ==
  LET user == [_id |-> ObjectId_new(c), name |-> req.name, email |-> req.email]
      r == insert_one(coll, user, ok)
  IN  IF req.name = "" \/ req.email = ""
      THEN [coll |-> coll, res |-> Status("InvalidArgument", "empty field"), calls |-> 0]
      ELSE IF ~r.ok
      THEN [coll |-> coll, res |-> Status("Internal", "MongoDB error"), calls |-> 1]
      ELSE [coll |-> r.coll, res |-> UserResponse(to_hex(user._id), req.name, req.email),
            calls |-> 1]

\* create_user trying the insert a second time after a failure.
create_user_retry(coll, c, ok, req) ==
  LET user == [_id |-> ObjectId_new(c), name |-> req.name, email |-> req.email]
      r == insert_one(coll, user, ok)
  IN  IF ~r.ok
      THEN [coll |-> coll, res |-> Status("Internal", "MongoDB error"), calls |-> 2]
      ELSE [coll |-> r.coll, res |-> UserResponse(to_hex(user._id), req.name, req.email),
            calls |-> 1]

create_user(coll, c, ok, req) ==
  LET user == [_id |-> ObjectId_new(c), name |-> req.name, email |-> req.email]
      r == insert_one(coll, user, ok)
  IN  IF ~r.ok
      THEN [coll |-> coll, res |-> Status("Internal", "MongoDB error"), calls |-> 1]
      ELSE [coll |-> r.coll, res |-> UserResponse(to_hex(user._id), req.name, req.email),
            calls |-> 1]

\* get_user reporting a missing document as a store failure.
get_user_none_internal(coll, ok, id) ==
  LET p == parse_str(id)
      r == find_one(coll, p.oid, ok)
  IN  IF ~p.ok
      THEN [coll |-> coll, res |-> Status("InvalidArgument", "Invalid ID"), calls |-> 0]
      ELSE IF ~r.ok \/ ~r.found
      THEN [coll |-> coll, res |-> Status("Internal", "MongoDB error"), calls |-> 1]
      ELSE [coll |-> coll,
            res |-> UserResponse(to_hex(r.doc._id), r.doc.name, r.doc.email),
            calls |-> 1]

\* get_user asking the store before it checks the identifier.
get_user_store_first(coll, ok, id) ==
  LET p == parse_str(id)
      r == find_one(coll, p.oid, ok)
  IN  IF ~ok
      THEN [coll |-> coll, res |-> Status("Internal", "MongoDB error"), calls |-> 1]
      ELSE IF ~p.ok
      THEN [coll |-> coll, res |-> Status("InvalidArgument", "Invalid ID"), calls |-> 1]
      ELSE IF ~r.found
      THEN [coll |-> coll, res |-> Status("NotFound", "User not found"), calls |-> 1]
      ELSE [coll |-> coll,
            res |-> UserResponse(to_hex(r.doc._id), r.doc.name, r.doc.email),
            calls |-> 1]

get_user(coll, ok, id) ==
  LET p == parse_str(id)
      r == find_one(coll, p.oid, ok)
  IN  IF ~p.ok
      THEN [coll |-> coll, res |-> Status("InvalidArgument", "Invalid ID"), calls |-> 0]
      ELSE IF ~r.ok
      THEN [coll |-> coll, res |-> Status("Internal", "MongoDB error"), calls |-> 1]
      ELSE IF ~r.found
      THEN [coll |-> coll, res |-> Status("NotFound", "User not found"), calls |-> 1]
      ELSE [coll |-> coll,
            res |-> UserResponse(to_hex(r.doc._id), r.doc.name, r.doc.email),
            calls |-> 1]

\* create_product rejecting an empty name or a negative price.
create_product_validating(coll, c, ok, req) ==
  LET product == [_id |-> ObjectId_new(c), name |-> req.name,
                  description |-> req.description, price |-> as_f64(req.price)]
      r == insert_one(coll, product, ok)
  IN  IF req.name = "" \/ req.price < 0
      THEN [coll |-> coll, res |-> Status("InvalidArgument", "bad product"), calls |-> 0]
      ELSE IF ~r.ok
      THEN [coll |-> coll, res |-> Status("Internal", "MongoDB error"), calls |-> 1]
      ELSE [coll |-> r.coll,
            res |-> ProductResponse(to_hex(product._id), req.name, req.description,
                                    req.price),
            calls |-> 1]

create_product(coll, c, ok, req) ==
  LET product == [_id |-> ObjectId_new(c), name |-> req.name,
                  description |-> req.description, price |-> as_f64(req.price)]
      r == insert_one(coll, product, ok)
  IN  IF ~r.ok
      THEN [coll |-> coll, res |-> Status("Internal", "MongoDB error"), calls |-> 1]
      ELSE [coll |-> r.coll,
            res |-> ProductResponse(to_hex(product._id), req.name, req.description,
                                    req.price),
            calls |-> 1]

get_product(coll, ok, id) ==
  LET p == parse_str(id)
      r == find_one(coll, p.oid, ok)
  IN  IF ~p.ok
      THEN [coll |-> coll, res |-> Status("InvalidArgument", "Invalid ID"), calls |-> 0]
      ELSE IF ~r.ok
      THEN [coll |-> coll, res |-> Status("Internal", "MongoDB error"), calls |-> 1]
      ELSE IF ~r.found
      THEN [coll |-> coll, res |-> Status("NotFound", "Product not found"), calls |-> 1]
      ELSE [coll |-> coll,
            res |-> ProductResponse(to_hex(r.doc._id), r.doc.name, r.doc.description,
                                    r.doc.price),
            calls |-> 1]

\* ------------------------------------------------------ identifier inputs
NonexistentId == <<"n","o","n","e","x","i","s","t","e","n","t","-","i","d">>
\* 24 characters, the last one not a hex digit.
NonHexId == to_hex(OidPrefix) \o <<"0","0","0","0","0","g">>
\* 22 hex digits.
ShortId == to_hex(OidPrefix) \o <<"0","0","0","a">>
\* Well-formed, of another process: never generated here.
ForeignId == [i \in 1..(2 * OidBytes) |-> "f"]
\* The first generated identifier written in upper case.
UpperFirstId == [i \in 1..(2 * OidBytes) |->
                   LET ch == to_hex(ObjectId_new(OidStart))[i]
                   IN  UpperHexDigits[HexVal(ch) + 1]]
\* The identifiers this process can hand out within the bound.
GeneratedIds == {to_hex(ObjectId_new(c)) : c \in OidStart..(OidStart + MaxDocs - 1)}
Identifiers ==
  GeneratedIds \cup {NonexistentId, NonHexId, ShortId, ForeignId, UpperFirstId}

\* ------------------------------------------------------------------ state
VARIABLES
  users,      \* users_collection: sequence of User documents
  products,   \* products_collection: sequence of Product documents
  counter,    \* the process-wide ObjectId counter
  storeOk,    \* TRUE when the store is reachable and accepts operations
  last,       \* the last completed call: operation, request, response, store calls
  callers,    \* interleaved specification: each caller's request in flight
  created     \* interleaved specification: the set of successful creates' responses

vars == <<users, products, counter, storeOk, last, callers, created>>

Procs == 1..MaxCallers

Idle == [pc |-> "idle", op |-> "none", req |-> [id |-> <<>>], c |-> 0, res |-> Status("none", "")]

Init ==
  /\ users = <<>>
  /\ products = <<>>
  /\ counter = OidStart
  /\ storeOk = TRUE
  /\ last = [op |-> "none", req |-> [id |-> <<>>], res |-> Status("none", ""), calls |-> 0]
  /\ callers = [p \in Procs |-> Idle]
  /\ created = {}

\* ---------------------------------------------- one request at a time
CreateUser ==
  \E req \in CreateUserRequests :
    LET r == create_user(users, counter, storeOk, req)
    IN  /\ counter < OidStart + MaxDocs
        /\ users' = r.coll
        /\ counter' = counter + 1
        /\ last' = [op |-> "create_user", req |-> req, res |-> r.res, calls |-> r.calls]
        /\ UNCHANGED <<products, storeOk, callers, created>>

GetUser ==
  \E id \in Identifiers :
    LET r == get_user(users, storeOk, id)
    IN  /\ users' = r.coll
        /\ last' = [op |-> "get_user", req |-> [id |-> id], res |-> r.res, calls |-> r.calls]
        /\ UNCHANGED <<products, counter, storeOk, callers, created>>

CreateProduct ==
  \E req \in CreateProductRequests :
    LET r == create_product(products, counter, storeOk, req)
    IN  /\ counter < OidStart + MaxDocs
        /\ products' = r.coll
        /\ counter' = counter + 1
        /\ last' = [op |-> "create_product", req |-> req, res |-> r.res,
                    calls |-> r.calls]
        /\ UNCHANGED <<users, storeOk, callers, created>>

GetProduct ==
  \E id \in Identifiers :
    LET r == get_product(products, storeOk, id)
    IN  /\ products' = r.coll
        /\ last' = [op |-> "get_product", req |-> [id |-> id], res |-> r.res, calls |-> r.calls]
        /\ UNCHANGED <<users, counter, storeOk, callers, created>>

\* The environment: the store becomes unreachable, or reachable again.
StoreFlip ==
  /\ storeOk' = ~storeOk
  /\ UNCHANGED <<users, products, counter, last, callers, created>>

Next == CreateUser \/ GetUser \/ CreateProduct \/ GetProduct \/ StoreFlip

Spec == Init /\ [][Next]_vars

\* --------------------------------------------- the store's content alone
\* get_user and get_product never write, so the creates and the store's
\* availability alone span every content the store can have.
StoreNext == CreateUser \/ CreateProduct \/ StoreFlip

StoreSpec == Init /\ [][StoreNext]_vars

\* The calls of the service, and the effect of one call on a store state
\* st = [users, products, counter] (what CreateUser, GetUser, CreateProduct
\* and GetProduct do to the variables).
Calls ==
  {[op |-> "create_user", req |-> r] : r \in CreateUserRequests}
    \cup {[op |-> "create_product", req |-> r] : r \in CreateProductRequests}
    \cup {[op |-> o, req |-> [id |-> i]] : o \in {"get_user", "get_product"},
                                           i \in Identifiers}

Exec(st, ok, call) ==
  CASE call.op = "create_user" ->
         LET r == create_user(st.users, st.counter, ok, call.req)
         IN  [st |-> [users |-> r.coll, products |-> st.products,
                      counter |-> st.counter + 1],
              res |-> r.res]
    [] call.op = "create_product" ->
         LET r == create_product(st.products, st.counter, ok, call.req)
         IN  [st |-> [users |-> st.users, products |-> r.coll,
                      counter |-> st.counter + 1],
              res |-> r.res]
    [] call.op = "get_user" ->
         LET r == get_user(st.users, ok, call.req.id)
         IN  [st |-> [users |-> r.coll, products |-> st.products, counter |-> st.counter],
              res |-> r.res]
    [] OTHER ->
         LET r == get_product(st.products, ok, call.req.id)
         IN  [st |-> [users |-> st.users, products |-> r.coll, counter |-> st.counter],
              res |-> r.res]

\* ------------------------------------------------ concurrent requests
\* A handler runs up to its store call (building the document with
\* ObjectId::new(), or parsing the identifier), then awaits one store round
\* trip, which the store performs atomically, and maps its result.
ConcUserRequests == {[name |-> "Ann", email |-> "a@b.com"]}
ConcProductRequests == {[name |-> "Widget", description |-> "desc", price |-> 3]}
ConcIdentifiers == {to_hex(ObjectId_new(OidStart)), NonexistentId}

\* create_user up to the await of insert_one: the document gets its _id.
BeginCreateUser(p) ==
  \E req \in ConcUserRequests :
    /\ callers[p].pc = "idle"
    /\ counter < OidStart + MaxDocs
    /\ counter' = counter + 1
    /\ callers' = [callers EXCEPT ![p] =
                     [pc |-> "store", op |-> "create_user", req |-> req, c |-> counter,
                      res |-> Status("none", "")]]
    /\ UNCHANGED <<users, products, storeOk, last, created>>

BeginCreateProduct(p) ==
  \E req \in ConcProductRequests :
    /\ callers[p].pc = "idle"
    /\ counter < OidStart + MaxDocs
    /\ counter' = counter + 1
    /\ callers' = [callers EXCEPT ![p] =
                     [pc |-> "store", op |-> "create_product", req |-> req, c |-> counter,
                      res |-> Status("none", "")]]
    /\ UNCHANGED <<users, products, storeOk, last, created>>

\* get_user / get_product up to the await of find_one: a malformed identifier
\* is answered at once.
BeginGet(p) ==
  \E op \in {"get_user", "get_product"}, id \in ConcIdentifiers :
    /\ callers[p].pc = "idle"
    /\ callers' = [callers EXCEPT ![p] =
                     IF parse_str(id).ok
                     THEN [pc |-> "store", op |-> op, req |-> [id |-> id], c |-> 0,
                           res |-> Status("none", "")]
                     ELSE [pc |-> "done", op |-> op, req |-> [id |-> id], c |-> 0,
                           res |-> Status("InvalidArgument", "Invalid ID")]]
    /\ UNCHANGED <<users, products, counter, storeOk, last, created>>

\* The store round trip of caller p and the mapping of its result.
StoreCall(p) ==
  LET me == callers[p]
      r == CASE me.op = "create_user" -> create_user(users, me.c, storeOk, me.req)
             [] me.op = "create_product" -> create_product(products, me.c, storeOk, me.req)
             [] me.op = "get_user" -> get_user(users, storeOk, me.req.id)
             [] OTHER -> get_product(products, storeOk, me.req.id)
  IN  /\ me.pc = "store"
      /\ users' = IF me.op \in {"create_user", "get_user"} THEN r.coll ELSE users
      /\ products' = IF me.op \in {"create_product", "get_product"} THEN r.coll
                     ELSE products
      /\ callers' = [callers EXCEPT ![p] =
                       [me EXCEPT !.pc = "done", !.c = 0, !.res = r.res]]
      /\ created' = IF me.op \in {"create_user", "create_product"} /\ r.res.status = "Ok"
                    THEN created \cup {[op |-> me.op, body |-> r.res.body]}
                    ELSE created
      /\ UNCHANGED <<counter, storeOk, last>>

\* The response is delivered; the caller may issue another request.
Return(p) ==
  /\ callers[p].pc = "done"
  /\ callers' = [callers EXCEPT ![p] = Idle]
  /\ UNCHANGED <<users, products, counter, storeOk, last, created>>

ConcNext ==
  \/ \E p \in Procs : BeginCreateUser(p)
  \/ \E p \in Procs : BeginCreateProduct(p)
  \/ \E p \in Procs : BeginGet(p)
  \/ \E p \in Procs : StoreCall(p)
  \/ \E p \in Procs : Return(p)
  \/ StoreFlip

ConcSpec == Init /\ [][ConcNext]_vars

\* ======================================================== properties
\* A step that completes a call of the one-request-at-a-time specification.
OpStep ==
  \/ last'.op # last.op
  \/ (last'.op = last.op /\ last' # last)
  \/ counter' # counter

Gets == {"get_user", "get_product"}
Creates == {"create_user", "create_product"}

\* Identifiers that are not 24 hex digits, and identifiers that are.
MalformedIds == {NonexistentId, NonHexId, ShortId}
WellFormedIds == GeneratedIds \cup {ForeignId, UpperFirstId}

\* The identifier with its hex letters in lower case.
Lower(id) == [i \in 1..Len(id) |-> HexDigits[HexVal(id[i]) + 1]]

DocIds(coll) == {to_hex(coll[i]._id) : i \in 1..Len(coll)}

\* ------------------------------------------------------------------- C1
\* C1: with the store reachable, a successful create_user followed by
\* get_user on the returned id returns that id and the request's name and
\* email; a successful create_product followed by get_product on the returned
\* id returns that id and the request's name, description and price.
C1_RoundTripStep ==
  /\ ( /\ last.op = "create_user" /\ last.res.status = "Ok"
       /\ last'.op = "get_user" /\ last'.req.id = last.res.body.id /\ storeOk )
     => last'.res = UserResponse(last.res.body.id, last.req.name, last.req.email)
  /\ ( /\ last.op = "create_product" /\ last.res.status = "Ok"
       /\ last'.op = "get_product" /\ last'.req.id = last.res.body.id /\ storeOk )
     => last'.res = ProductResponse(last.res.body.id, last.req.name,
                                    last.req.description, last.req.price)
C1_RoundTrip == [][C1_RoundTripStep]_vars

\* A get_product has just returned the product created last, the second
\* document of its collection.
C1_Witness ==
  /\ last.op = "get_product" /\ last.res.status = "Ok"
  /\ Len(products) = 2
  /\ last.res.body.id = to_hex(products[2]._id)
  /\ last.res.body.price = 3
  /\ counter = OidStart + 2
C4_MalformedRejected ==
  (last.op \in Gets /\ last.req.id \in MalformedIds)
    => (last.res.status = "InvalidArgument" /\ last.calls = 0)

\* A get_user with a malformed identifier has completed while the store is
\* unreachable and the collection holds a document.
C4_Witness ==
  /\ last.op = "get_user" /\ last.req.id = ShortId
  /\ ~storeOk /\ Len(users) > 0

\* ------------------------------------------------------------------- C5
\* C5 as stated: with the store reachable, get_user (get_product) with an
\* identifier that no document of the collection has, "nonexistent-id"
\* included, fails with NotFound.
C5_Original ==
  [][ /\ ( /\ OpStep /\ last'.op = "get_user" /\ storeOk
           /\ last'.req.id \notin DocIds(users) )
         => last'.res.status = "NotFound"
      /\ ( /\ OpStep /\ last'.op = "get_product" /\ storeOk
           /\ last'.req.id \notin DocIds(products) )
         => last'.res.status = "NotFound" ]_vars

\* C5 amended: with the store reachable, get_user (get_product) with a
\* well-formed identifier (24 hex digits) that, letter case aside, no document
\* of the collection has fails with NotFound; get_user("nonexistent-id") is
\* not well-formed and fails with InvalidArgument.
C5_NotFound ==
  [][ /\ ( /\ OpStep /\ last'.op = "get_user" /\ storeOk
           /\ last'.req.id \in WellFormedIds
           /\ Lower(last'.req.id) \notin DocIds(users) )
         => (last'.res.status = "NotFound" /\ last'.calls = 1)
      /\ ( /\ OpStep /\ last'.op = "get_product" /\ storeOk
           /\ last'.req.id \in WellFormedIds
           /\ Lower(last'.req.id) \notin DocIds(products) )
         => (last'.res.status = "NotFound" /\ last'.calls = 1)
      /\ ( /\ OpStep /\ last'.op \in Gets /\ last'.req.id = NonexistentId )
         => last'.res.status = "InvalidArgument" ]_vars

\* A get_user of a well-formed identifier that another collection's document
\* has, but no user has, has answered NotFound while users is not empty.
C5_Witness ==
  /\ last.op = "get_user" /\ last.res.status = "NotFound"
  /\ Len(users) > 0 /\ Len(products) > 0
  /\ last.req.id = to_hex(products[1]._id)

\* ------------------------------------------------------------------- C6
UniqueIds(coll) ==
  \A i, j \in 1..Len(coll) : coll[i]._id = coll[j]._id => i = j

\* C6: no two documents of a collection share an identifier, and a successful
\* create_user followed by a create_user with the same request, the store
\* being reachable, succeeds too, returns another identifier and adds a
\* second document.
C6_Step ==
  /\ UniqueIds(users') /\ UniqueIds(products')
  /\ ( /\ last.op = "create_user" /\ last.res.status = "Ok"
       /\ OpStep /\ last'.op = "create_user" /\ last'.req = last.req /\ storeOk )
     => /\ last'.res.status = "Ok"
        /\ last'.res.body.id # last.res.body.id
        /\ Len(users') = Len(users) + 1
C6_UniqueIds == [][C6_Step]_vars

\* Two create_user calls with the same request have left two documents.
C6_Witness ==
  /\ last.op = "create_user" /\ last.res.status = "Ok"
  /\ Len(users) = 2
  /\ users[1].name = users[2].name /\ users[1].email = users[2].email
  /\ users[1]._id # users[2]._id

\* ------------------------------------------------------------------- C7
\* C7: when the store is unreachable or rejects the operation, each of the
\* four operations, its input being well-formed, answers Internal after
\* exactly one store call, and neither collection changes.
C7_StoreFailure ==
  [][ ( /\ OpStep /\ ~storeOk
        /\ (last'.op \in Gets => last'.req.id \in WellFormedIds) )
      => /\ last'.res.status = "Internal"
         /\ last'.calls = 1
         /\ users' = users /\ products' = products ]_vars

\* A create_user has failed with Internal while the collections hold documents.
C7_Witness ==
  /\ last.op = "create_user" /\ last.res.status = "Internal"
  /\ ~storeOk /\ Len(users) > 0 /\ last.calls = 1

\* ------------------------------------------------------------------- C8
Docs(coll) == {coll[i] : i \in 1..Len(coll)}

\* C8: every document of a collection is still there, with the same fields,
\* after any call; get_user and get_product change neither collection; a
\* create changes at most its own collection, by adding one document.
C8_Step ==
  /\ Docs(users) \subseteq Docs(users')
  /\ Docs(products) \subseteq Docs(products')
  /\ (last'.op \in Gets /\ OpStep) => (users' = users /\ products' = products)
  /\ (last'.op = "create_user" /\ OpStep)
       => /\ products' = products
          /\ (users' = users \/ (Len(users') = Len(users) + 1
                                 /\ Cardinality(Docs(users') \ Docs(users)) = 1))
  /\ (last'.op = "create_product" /\ OpStep)
       => /\ users' = users
          /\ (products' = products \/ (Len(products') = Len(products) + 1
                                 /\ Cardinality(Docs(products') \ Docs(products)) = 1))
C8_Immutable == [][C8_Step]_vars

\* A second product has been added and the first one is still in place.
C8_Witness ==
  /\ last.op = "create_product" /\ last.res.status = "Ok"
  /\ Len(products) = 2 /\ Len(users) = 0
  /\ products[1].name = "" /\ products[2].name = "Widget"
\* ------------------------------------------------------------------ C10
CreatedBy(op) == {cr \in created : cr.op = op}

UserBodies == {UserResponse(to_hex(users[j]._id), users[j].name, users[j].email).body :
                 j \in 1..Len(users)}
ProductBodies ==
  {ProductResponse(to_hex(products[j]._id), products[j].name, products[j].description,
                   products[j].price).body : j \in 1..Len(products)}

\* C10: under every interleaving of the callers' steps each collection holds
\* exactly one document per successful create of its kind (none lost, none
\* duplicated, all identifiers distinct), and a get that returns a document
\* returns the complete fields of a document some create stored; every other
\* get ends with a typed failure.
C10_ConcurrentSafe ==
  /\ Len(users) = Cardinality(CreatedBy("create_user"))
  /\ Len(products) = Cardinality(CreatedBy("create_product"))
  /\ UniqueIds(users) /\ UniqueIds(products)
  /\ \A cr \in CreatedBy("create_user") : cr.body \in UserBodies
  /\ \A cr \in CreatedBy("create_product") : cr.body \in ProductBodies
  /\ \A cr, cs \in created : (cr.op = cs.op /\ cr.body.id = cs.body.id) => cr = cs
  /\ \A p \in Procs :
       (callers[p].pc = "done" /\ callers[p].op \in Gets) =>
         \/ callers[p].res.status \in {"NotFound", "InvalidArgument", "Internal"}
         \/ /\ callers[p].res.status = "Ok"
            /\ callers[p].res.body \in
                 (IF callers[p].op = "get_user" THEN UserBodies ELSE ProductBodies)
            /\ \E cr \in CreatedBy(IF callers[p].op = "get_user" THEN "create_user"
                                   ELSE "create_product") :
                 cr.body = callers[p].res.body

\* Two create_user requests overlapped (the one that drew the later identifier
\* was stored first) and a get_user has returned one of their documents while
\* the other caller's get_user was awaiting the store.
C10_Witness ==
  /\ Len(users) = 2
  /\ users[1]._id = ObjectId_new(OidStart + 1)
  /\ users[2]._id = ObjectId_new(OidStart)
  /\ \E p, q \in Procs :
       /\ callers[p].pc = "done" /\ callers[p].op = "get_user"
       /\ callers[p].res.status = "Ok"
       /\ callers[q].pc = "store" /\ callers[q].op = "get_user"
\* ------------------------------------------------------------------- C9
Cur == [users |-> users, products |-> products, counter |-> counter]

\* The documents of a store state, order of insertion aside.
Content(st) ==
  [users |-> {st.users[i] : i \in 1..Len(st.users)},
   products |-> {st.products[i] : i \in 1..Len(st.products)}]

\* Calls a and b, run from the current state in either order, give each call
\* the same outcome and leave the store with the same content.
Commute(a, b) ==
  LET a1 == Exec(Cur, storeOk, a)
      b2 == Exec(a1.st, storeOk, b)
      b1 == Exec(Cur, storeOk, b)
      a2 == Exec(b1.st, storeOk, a)
  IN  /\ a1.res = a2.res
      /\ b1.res = b2.res
      /\ Content(b2.st) = Content(a2.st)

\* C9 as stated: any two calls commute in every reachable state.
C9_Original == \A a, b \in Calls : Commute(a, b)

\* The identifier the next create will be given.
NextId == to_hex(ObjectId_new(counter))

\* A document without its identifier.
Fields(d) == [f \in DOMAIN d \ {"_id"} |-> d[f]]
FieldsOf(coll) == {Fields(coll[i]) : i \in 1..Len(coll)}
IdsOf(coll) == {coll[i]._id : i \in 1..Len(coll)}

\* Calls a and b commute but for the identifiers: same statuses in either
\* order, the creates exchange their identifiers, and the store ends with as
\* many documents, the same fields and the same set of identifiers.
CommuteUpToIds(a, b) ==
  LET a1 == Exec(Cur, storeOk, a)
      b2 == Exec(a1.st, storeOk, b)
      b1 == Exec(Cur, storeOk, b)
      a2 == Exec(b1.st, storeOk, a)
  IN  /\ a1.res.status = a2.res.status
      /\ b1.res.status = b2.res.status
      /\ storeOk => /\ a1.res.body.id = b1.res.body.id
                    /\ a2.res.body.id = b2.res.body.id
                    /\ a1.res.body.id # a2.res.body.id
      /\ Len(b2.st.users) = Len(a2.st.users)
      /\ Len(b2.st.products) = Len(a2.st.products)
      /\ FieldsOf(b2.st.users) = FieldsOf(a2.st.users)
      /\ FieldsOf(b2.st.products) = FieldsOf(a2.st.products)
      /\ IdsOf(b2.st.users) \cup IdsOf(b2.st.products)
           = IdsOf(a2.st.users) \cup IdsOf(a2.st.products)

\* The get g asks the collection of the create c for the identifier that c
\* is about to be given, and the store is reachable.
Interferes(g, c) ==
  /\ storeOk
  /\ (g.op = "get_user" /\ c.op = "create_user")
       \/ (g.op = "get_product" /\ c.op = "create_product")
  /\ g.req.id \in WellFormedIds
  /\ Lower(g.req.id) = NextId

\* C9 amended: two gets commute; a get and a create commute unless the get
\* asks the create's collection for the identifier the create is about to be
\* given (then the get finds the document only when it runs second); two
\* creates commute but for their identifiers, which they exchange: statuses,
\* document counts, fields and the set of identifiers are the same in either
\* order.
C9_CommuteButForIds ==
  \A a, b \in Calls :
    /\ (a.op \in Gets /\ b.op \in Gets) => Commute(a, b)
    /\ (a.op \in Gets /\ b.op \in Creates)
         => IF Interferes(a, b) THEN ~Commute(a, b) ELSE Commute(a, b) /\ Commute(b, a)
    /\ (a.op \in Creates /\ b.op \in Creates) => CommuteUpToIds(a, b)

\* The store is reachable and holds one user, created last, and the bound
\* leaves room for a further create: a get can ask for the identifier that
\* create will be given, and two creates have identifiers to exchange.
C9_Witness ==
  /\ storeOk
  /\ Len(users) = 1
  /\ counter = OidStart + 1
  /\ NextId \in Identifiers
  /\ last.op = "create_user" /\ last.res.status = "Ok"
====
